---- MODULE Spec2Model ----
(***************************************************************************)
(* Model of terminal_fireworks (src/src/main.rs): the particle integrator, *)
(* the Firework lifecycle and the per-tick update of the State.            *)
(*                                                                         *)
(* f64 values are kept exactly.  Every f64 the program computes from the   *)
(* inputs enumerated here is a multiple of 2^-59 of magnitude below 2^12,  *)
(* so an f64 x is the integer x * 2^59, written in three limbs of 24 bits  *)
(* <<v2, v1, v0>> (v2 signed, 0 <= v1, v0 < 2^24).  f64 addition is the    *)
(* exact sum rounded to 53 significant bits, ties to even, as IEEE-754     *)
(* defines it.  The sign of zero is not represented.                       *)
(***************************************************************************)
EXTENDS Integers, Sequences, FiniteSets

Pow2 == <<1, 2, 4, 8, 16, 32, 64, 128, 256, 512, 1024, 2048, 4096, 8192,
          16384, 32768, 65536, 131072, 262144, 524288, 1048576, 2097152,
          4194304, 8388608, 16777216, 33554432, 67108864, 134217728,
          268435456, 536870912, 1073741824>>

\* 2^k for 0 <= k <= 30
TwoTo(k) == Pow2[k + 1]

\* the base of the limbs, 2^24
Limb == TwoTo(24)

\* number of significant bits of n, 0 <= n < 2^30
BitLen(n) == IF n = 0 THEN 0 ELSE CHOOSE k \in 1..30 : TwoTo(k - 1) <= n /\ n < TwoTo(k)

\* carry propagation: limbs back into 0..2^24-1, the top limb keeps the sign
Norm(v) ==
    LET c0 == v[3] \div Limb
        s1 == v[2] + c0
        c1 == s1 \div Limb
    IN  <<v[1] + c1, s1 % Limb, v[3] % Limb>>

F64Neg(a) == Norm(<<-a[1], -a[2], -a[3]>>)

F64IsNeg(a) == a[1] < 0

F64Lt(a, b) ==
    \/ a[1] < b[1]
    \/ a[1] = b[1] /\ a[2] < b[2]
    \/ a[1] = b[1] /\ a[2] = b[2] /\ a[3] < b[3]

F64Le(a, b) == ~F64Lt(b, a)

F64Gt(a, b) == F64Lt(b, a)

\* significant bits of a non-negative limb triple
MagBits(m) ==
    IF m[1] > 0 THEN 48 + BitLen(m[1])
    ELSE IF m[2] > 0 THEN 24 + BitLen(m[2])
    ELSE BitLen(m[3])

\* round a non-negative exact value to 53 significant bits, ties to even
RoundMag(m) ==
    LET n == MagBits(m)
    IN  IF n <= 53 THEN m
        ELSE LET k    == n - 53
                 unit == TwoTo(k)
                 low  == m[3] % unit
                 kept == m[3] - low
                 odd  == (m[3] \div unit) % 2 = 1
                 up   == low > TwoTo(k - 1) \/ (low = TwoTo(k - 1) /\ odd)
             IN  Norm(<<m[1], m[2], IF up THEN kept + unit ELSE kept>>)

F64Round(v) == IF F64IsNeg(v) THEN F64Neg(RoundMag(F64Neg(v))) ELSE RoundMag(v)

\* a + b in f64
F64Add(a, b) == F64Round(Norm(<<a[1] + b[1], a[2] + b[2], a[3] + b[3]>>))

\* a - b in f64
F64Sub(a, b) == F64Add(a, F64Neg(b))

\* a * n in f64 for a small integer n (the product is exact before rounding)
F64MulInt(a, n) == F64Round(Norm(<<a[1] * n, a[2] * n, a[3] * n>>))

\* a / 2 in f64 (exact: a is never subnormal here)
F64Half(a) ==
    <<a[1] \div 2, ((a[1] % 2) * Limb + a[2]) \div 2, ((a[2] % 2) * Limb + a[3]) \div 2>>

\* n as f64, for an integer |n| < 2^12
F64FromInt(n) == <<n * 2048, 0, 0>>

\* f64::round (half away from zero) followed by `as i64`
F64RoundToInt(a) ==
    LET m == IF F64IsNeg(a) THEN F64Neg(a) ELSE a
        q == (m[1] \div 2048) + (IF m[1] % 2048 >= 1024 THEN 1 ELSE 0)
    IN  IF F64IsNeg(a) THEN -q ELSE q

\* f64::clamp(lo, hi)
F64Clamp(a, lo, hi) == IF F64Lt(a, lo) THEN lo ELSE IF F64Gt(a, hi) THEN hi ELSE a

\* f64 literals of the program
F64Zero == <<0, 0, 0>>
F64One == <<2048, 0, 0>>
F64Hundred == <<204800, 0, 0>>
\* 0.01
DefaultFading == <<20, 8053063, 11408507>>
\* 0.02
Gravity == <<40, 16106127, 6039798>>
\* -0.3
DetonationSpeed == <<-615, 10066329, 10066336>>
\* 0.5
F64HalfLit == <<1024, 0, 0>>
\* 0.9
F64PointNine == <<1843, 3355443, 3355456>>
\* 0.10
SpawnProbability == <<204, 13421772, 13421776>>


(***************************************************************************)
(* Particle                                                                *)
(***************************************************************************)

\* Color::from_rgb
ColorFromRgb(r, g, b) == [kind |-> "rgb", c |-> <<r, g, b>>]

\* HslColor::new(h, s, l).into(): the RGB colour the library derives from
\* the HSL triple, kept as the triple it is derived from
ColorFromHsl(h, s, l) == [kind |-> "hsl", c |-> <<h, s, l>>]

ParticleNew(x, y, width, height, color) ==
    [position     |-> <<F64FromInt(x), F64FromInt(y)>>,
     dimensions   |-> <<width, height>>,
     lifetime     |-> F64One,
     fading       |-> DefaultFading,
     speed        |-> <<F64Zero, F64Zero>>,
     acceleration |-> <<F64Zero, F64Zero>>,
     color        |-> color]

\* mutant of WithFading: the argument is dropped
WithFadingDropped(p, fading) == p

WithFading(p, fading) == [p EXCEPT !.fading = fading]

WithSpeed(p, x, y) == [p EXCEPT !.speed = <<x, y>>]

WithAcceleration(p, x, y) == [p EXCEPT !.acceleration = <<x, y>>]

ParticleIsDead(p) == F64Le(p.lifetime, F64Zero)

\* mutant of Integrate: the position advances by the speed before the update
IntegrateExplicit(p) ==
    [p EXCEPT !.speed    = <<F64Add(p.speed[1], p.acceleration[1]),
                             F64Add(p.speed[2], p.acceleration[2])>>,
              !.lifetime = F64Sub(p.lifetime, p.fading),
              !.position = <<F64Add(p.position[1], p.speed[1]),
                             F64Add(p.position[2], p.speed[2])>>]

\* the body of Particle::update after the early return
Integrate(p) ==
    LET speed == <<F64Add(p.speed[1], p.acceleration[1]),
                   F64Add(p.speed[2], p.acceleration[2])>>
    IN  [p EXCEPT !.speed    = speed,
                  !.lifetime = F64Sub(p.lifetime, p.fading),
                  !.position = <<F64Add(p.position[1], speed[1]),
                                 F64Add(p.position[2], speed[2])>>]

\* mutant of ParticleUpdate: the early return tests lifetime < 0.0
ParticleUpdateStrictGuard(p) ==
    IF F64Lt(p.lifetime, F64Zero) THEN p ELSE Integrate(p)

\* mutant of ParticleUpdate: no early return
ParticleUpdateUnguarded(p) == Integrate(p)

ParticleUpdate(p) ==
    IF F64Le(p.lifetime, F64Zero) THEN p ELSE Integrate(p)

(***************************************************************************)
(* Firework                                                                *)
(***************************************************************************)

\* Option<Particle>: << >> is None, <<p>> is Some(p)
None == << >>
Some(p) == <<p>>

BurstSize == 25

\* Color::as_hsl on the seed colours enumerated here (h, s, l as f64, s and
\* l in 0..100)
AsHsl(rgb) ==
    CASE rgb = <<255, 0, 0>>     -> <<F64Zero, F64Hundred, F64FromInt(50)>>
      [] rgb = <<0, 0, 255>>     -> <<F64FromInt(240), F64Hundred, F64FromInt(50)>>
      [] rgb = <<255, 255, 255>> -> <<F64Zero, F64Zero, F64Hundred>>
      [] rgb = <<0, 0, 0>>       -> <<F64Zero, F64Zero, F64Zero>>

FireworkNew(x, y, y_speed, effect_color) ==
    [rocket     |-> Some(WithFading(
                        WithSpeed(
                            WithAcceleration(
                                ParticleNew(x, y, 1, 3, ColorFromRgb(255, 255, 255)),
                                F64Zero, Gravity),
                            F64Zero, y_speed),
                        F64Zero)),
     effect     |-> << >>,
     base_color |-> AsHsl(effect_color)]

\* (u - 0.5) * 2.0 * n for n = 20.0, 40.0: the doubling is exact
Jitter(u, n) == F64MulInt(F64Sub(u, F64HalfLit), 2 * n)

\* 1.5 * a: 3a rounded, then the exact halving
F64MulOneAndHalf(a) == F64Half(F64MulInt(a, 3))

\* the i-th particle (i in 1..25) of the burst of a rocket r; draws is the
\* sequence of the 100 f64 samples the 25 iterations consume, four each
BurstParticle(r, base_color, draws, i) ==
    LET d == 4 * (i - 1)
    IN  WithSpeed(
            WithAcceleration(
                ParticleNew(
                    F64RoundToInt(r.position[1]),
                    F64RoundToInt(r.position[2]),
                    1, 1,
                    ColorFromHsl(
                        base_color[1],
                        F64Clamp(F64Add(base_color[2], Jitter(draws[d + 1], 20)),
                                 F64Zero, F64Hundred),
                        F64Clamp(F64Add(base_color[2], Jitter(draws[d + 2], 40)),
                                 F64Zero, F64Hundred))),
                F64Zero, Gravity),
            F64MulOneAndHalf(F64Sub(draws[d + 3], F64HalfLit)),
            F64MulOneAndHalf(F64Sub(draws[d + 4], F64PointNine)))

\* the 25 particles pushed by the loop of a detonation
Burst(r, base_color, draws) ==
    [i \in 1..BurstSize |-> BurstParticle(r, base_color, draws, i)]

\* mutant of UpdateEffect: the effect particles are not updated
UpdateEffectSkipped(effect) == effect

\* for particle in self.effect.iter_mut() { particle.update() }
UpdateEffect(effect) == [i \in DOMAIN effect |-> ParticleUpdate(effect[i])]

\* mutant of Detonates: the threshold is 0.0
DetonatesAtRest(r) == F64Gt(r.speed[2], F64Zero)

\* mutant of Detonates: the threshold is 0.5, past the apex
DetonatesFalling(r) == F64Gt(r.speed[2], F64HalfLit)

\* the rocket's speed after its update has passed the threshold
Detonates(r) == F64Gt(r.speed[2], DetonationSpeed)

\* mutant of FireworkUpdate: the rocket is not discarded after the burst
FireworkUpdateKeepsRocket(fw, draws) ==
    LET r    == ParticleUpdate(fw.rocket[1])
        boom == fw.rocket # None /\ Detonates(r)
    IN  [rocket     |-> IF fw.rocket = None THEN None ELSE Some(r),
         effect     |-> UpdateEffect(IF boom
                                     THEN fw.effect \o Burst(r, fw.base_color, draws)
                                     ELSE fw.effect),
         base_color |-> fw.base_color]

\* mutant of FireworkUpdate: the particles pushed by this call are not
\* updated by it
FireworkUpdateBurstWaits(fw, draws) ==
    LET r    == ParticleUpdate(fw.rocket[1])
        boom == fw.rocket # None /\ Detonates(r)
    IN  [rocket     |-> IF fw.rocket = None \/ boom THEN None ELSE Some(r),
         effect     |-> IF boom
                        THEN UpdateEffect(fw.effect) \o Burst(r, fw.base_color, draws)
                        ELSE UpdateEffect(fw.effect),
         base_color |-> fw.base_color]

FireworkUpdate(fw, draws) ==
    LET r    == ParticleUpdate(fw.rocket[1])
        boom == fw.rocket # None /\ Detonates(r)
    IN  [rocket     |-> IF fw.rocket = None \/ boom THEN None ELSE Some(r),
         effect     |-> UpdateEffect(IF boom
                                     THEN fw.effect \o Burst(r, fw.base_color, draws)
                                     ELSE fw.effect),
         base_color |-> fw.base_color]

\* one call of canvas.filled_rect; the colour argument is kept as what it is
\* computed from, the particle's colour and the lifetime scaling its channels
RectCall(p) ==
    [x      |-> F64RoundToInt(p.position[1]),
     y      |-> F64RoundToInt(p.position[2]),
     width  |-> p.dimensions[1],
     height |-> p.dimensions[2],
     color  |-> p.color,
     scale  |-> p.lifetime]

\* mutant of ParticleDraw: no early return
ParticleDrawUnguarded(p) == <<RectCall(p)>>

\* Particle::draw: the filled_rect calls it issues
ParticleDraw(p) ==
    IF F64Le(p.lifetime, F64Zero) THEN << >> ELSE <<RectCall(p)>>

\* for particle in self.effect.iter() { particle.draw(canvas) }
RECURSIVE DrawEffect(_)
DrawEffect(effect) ==
    IF effect = << >> THEN << >>
    ELSE ParticleDraw(Head(effect)) \o DrawEffect(Tail(effect))

\* Firework::draw: the rocket if there is one, then the effect
FireworkDraw(fw) ==
    (IF fw.rocket # None THEN ParticleDraw(fw.rocket[1]) ELSE << >>)
    \o DrawEffect(fw.effect)

\* mutant of FireworkIsDead: the rocket is not looked at
FireworkIsDeadEffectOnly(fw) ==
    \A i \in DOMAIN fw.effect : ParticleIsDead(fw.effect[i])

FireworkIsDead(fw) ==
    fw.rocket = None /\ \A i \in DOMAIN fw.effect : ParticleIsDead(fw.effect[i])

(***************************************************************************)
(* State of the model                                                      *)
(*   particle   the Particle under test of SpecParticle (an Option)        *)
(*   firework   the Firework under test of SpecFirework (an Option)        *)
(*   calls      history: update calls made so far on particle or firework  *)
(*   frozen     history: update calls made on it while it was already dead *)
(*   fireworks  State.fireworks                                            *)
(*   canvas     width and height of the CrosstermCanvas                    *)
(*   pc         the statement of the top-level update that runs next       *)
(*   tick       history: calls of the top-level update begun so far        *)
(*   ran        history: the phases the current (or last) call has run     *)
(*   hit        history: value of the condition of line 202 in this call   *)
(*   live       history: Fireworks not dead when this call began           *)
(*   hist       history, parallel to fireworks: tick of the spawn and      *)
(*              Firework::update calls received                            *)
(*   reaped     history: Fireworks removed by the retain of this call      *)
(*   spawned    history: Fireworks pushed so far                           *)
(*   removed    history: Fireworks removed so far                          *)
(*   frame      the filled_rect calls of the render pass made since the    *)
(*              last call of the top-level update, if there was one        *)
(*   fades      history: Firework::update calls on firework since its      *)
(*              detonation, the detonating call included                   *)
(***************************************************************************)
VARIABLES particle, firework, calls, frozen,
          fireworks, canvas, pc, tick, ran, hit, live, hist,
          reaped, spawned, removed, frame, fades

vars == <<particle, firework, calls, frozen,
          fireworks, canvas, pc, tick, ran, hit, live, hist,
          reaped, spawned, removed, frame, fades>>

topIdle == <<fireworks, canvas, pc, tick, ran, hit, live, hist,
             reaped, spawned, removed, frame>>

InitTopIdle ==
    /\ fireworks = << >>
    /\ canvas = [width |-> 0, height |-> 0]
    /\ pc = "none"
    /\ tick = 0
    /\ ran = << >>
    /\ hit = FALSE
    /\ live = 0
    /\ hist = << >>
    /\ reaped = 0
    /\ spawned = 0
    /\ removed = 0
    /\ frame = None

\* bound on the update calls made on one Particle or one Firework
MaxCalls == 190

\* bound on the calls counted after death
MaxFrozen == 3

\* samples of gen::<f64>(), uniform in [0, 1): 0.0, 0.5 and 1 - 2^-53
USamples == {<<0, 0, 0>>, <<1024, 0, 0>>, <<2047, 16777215, 16777152>>}

\* the streams of samples enumerated for the detonations: the three constant
\* streams and the stream that cycles through 0.0, 0.5, 1 - 2^-53
StreamKinds == {"zero", "half", "top", "cycle"}

\* the d-th sample (d >= 1) of a stream
Sample(kind, d) ==
    CASE kind = "zero" -> <<0, 0, 0>>
      [] kind = "half" -> <<1024, 0, 0>>
      [] kind = "top"  -> <<2047, 16777215, 16777152>>
      [] OTHER         -> CASE d % 3 = 1 -> <<0, 0, 0>>
                            [] d % 3 = 2 -> <<1024, 0, 0>>
                            [] OTHER     -> <<2047, 16777215, 16777152>>

\* the 100 samples one detonation consumes, after `used` samples of the
\* stream have been consumed
Draws(kind, used) == [d \in 1..(4 * BurstSize) |-> Sample(kind, used + d)]

\* mutant of LaunchSpeed: the sample is scaled by -2.0
LaunchSpeedDoubled(u) == F64Add(F64Neg(F64One), F64Neg(F64MulInt(u, 2)))

\* -1.0 + u * -1.0
LaunchSpeed(u) == F64Add(F64Neg(F64One), F64Neg(u))

(***************************************************************************)
(* SpecParticle: one Particle built by Particle::new and the with_*        *)
(* builders, then updated any number of times                              *)
(***************************************************************************)

\* 0.0, 0.01, 0.3, 0.5, 1.5
FadingInputs ==
    {F64Zero, DefaultFading, <<614, 6710886, 6710880>>, F64HalfLit, <<3072, 0, 0>>}

\* (0, 0) and (0.5, -1.5)
SpeedInputs == {<<F64Zero, F64Zero>>, <<F64HalfLit, <<-3072, 0, 0>>>>}

AccelerationInputs == {<<F64Zero, F64Zero>>, <<F64Zero, Gravity>>}

ParticleInputs ==
    {WithFading(
        WithSpeed(
            WithAcceleration(ParticleNew(3, 7, 1, 1, ColorFromRgb(255, 0, 0)), a[1], a[2]),
            v[1], v[2]),
        f) : f \in FadingInputs, v \in SpeedInputs, a \in AccelerationInputs}

\* the rockets Firework::new builds
RocketInputs ==
    {FireworkNew(10, 100, LaunchSpeed(u), <<255, 0, 0>>).rocket[1] : u \in USamples}

IsRocket(p) == p.dimensions = <<1, 3>>

InitParticle ==
    /\ particle \in {Some(p) : p \in ParticleInputs \cup RocketInputs}
    /\ firework = None
    /\ calls = 0
    /\ frozen = 0
    /\ fades = 0
    /\ InitTopIdle

ParticleStep ==
    /\ particle # None
    /\ calls < MaxCalls
    /\ frozen < MaxFrozen
    /\ particle' = Some(ParticleUpdate(particle[1]))
    /\ calls' = calls + 1
    /\ frozen' = IF ParticleIsDead(particle[1]) THEN frozen + 1 ELSE frozen
    /\ UNCHANGED <<firework, fades, topIdle>>

NextParticle == ParticleStep

SpecParticle == InitParticle /\ [][NextParticle]_vars

(***************************************************************************)
(* SpecFirework: one Firework built by Firework::new, then updated any     *)
(* number of times                                                         *)
(***************************************************************************)

SeedColors == {<<255, 0, 0>>, <<255, 255, 255>>}

FireworkInputs ==
    {FireworkNew(10, 100, LaunchSpeed(u), c) : u \in USamples, c \in SeedColors}

InitFirework ==
    /\ firework \in {Some(fw) : fw \in FireworkInputs}
    /\ particle = None
    /\ calls = 0
    /\ frozen = 0
    /\ fades = 0
    /\ InitTopIdle

FireworkStep ==
    /\ firework # None
    /\ calls < MaxCalls
    /\ frozen < MaxFrozen
    /\ \E kind \in StreamKinds :
          firework' = Some(FireworkUpdate(firework[1], Draws(kind, 0)))
    /\ calls' = calls + 1
    /\ frozen' = IF FireworkIsDead(firework[1]) THEN frozen + 1 ELSE frozen
    /\ fades' = IF firework'[1].rocket = None THEN fades + 1 ELSE fades
    /\ UNCHANGED <<particle, topIdle>>

NextFirework == FireworkStep

SpecFirework == InitFirework /\ [][NextFirework]_vars

(***************************************************************************)
(* Spec: the top-level update, called tick after tick on one State.  The   *)
(* three statements of one call (retain, conditional push, update loop)    *)
(* are the three phases; pc names the phase that runs next.                *)
(***************************************************************************)

\* bound on the calls of the top-level update in one run
MaxTicks == 137

\* the Bernoulli trial is enumerated with both outcomes in the ticks
\* 1..EarlyTicks and from tick LateTick on; in the other ticks it fails
EarlyTicks == 2

LateTick == 135

Canvases == {[width |-> 4, height |-> 6], [width |-> 0, height |-> 6]}

\* samples of the trial's gen::<f64>(): 0.0, 0.10 and 0.5
TrialSamples == {F64Zero, SpawnProbability, F64HalfLit}

\* samples of gen::<u32>() for the launch column
ColumnSamples == {6}

\* samples of gen::<f64>() for the launch speed: 0.0 and 0.5
LaunchSamples == {F64Zero, F64HalfLit}

\* samples of the three gen::<u8>() of the seed colour
SeedSamples == {<<255, 0, 0>>}

\* the streams of samples enumerated for the detonations of one call
TickStreamKinds == {"half", "cycle"}

\* mutant of PhaseOrder: the update loop runs before the conditional push
PhaseOrderAdvanceFirst == <<"reap", "advance", "spawn">>

\* mutant of PhaseOrder: the conditional push runs before the retain
PhaseOrderSpawnFirst == <<"spawn", "reap", "advance">>

\* the statements of update after the quit check, in program order
PhaseOrder == <<"reap", "spawn", "advance">>

FirstPhase == PhaseOrder[1]

PhaseAfter(p) ==
    LET i == CHOOSE j \in 1..3 : PhaseOrder[j] = p
    IN  PhaseOrder[(i % 3) + 1]

IsAlive(fw) == ~FireworkIsDead(fw)

\* mutant of Retain: nothing is removed
RetainAll(fws) == fws

\* Vec::retain(|firework| !firework.is_dead())
Retain(fws) == SelectSeq(fws, IsAlive)

\* mutant of Push: the Firework is pushed twice
PushTwice(fws, fw) == fws \o <<fw, fw>>

\* Vec::push
Push(fws, fw) == Append(fws, fw)

\* the history entries of the Fireworks that Retain keeps
RECURSIVE RetainHist(_, _)
RetainHist(fws, hs) ==
    IF fws = << >> THEN << >>
    ELSE (IF IsAlive(Head(fws)) THEN <<Head(hs)>> ELSE << >>)
         \o RetainHist(Tail(fws), Tail(hs))

LiveCount(fws) == Cardinality({i \in DOMAIN fws : IsAlive(fws[i])})

\* the trial succeeds
TrialHit(u) == F64Lt(u, SpawnProbability)

\* the Firework pushed by a successful trial
Spawned(column, u, seed) ==
    FireworkNew(column % canvas.width, canvas.height, LaunchSpeed(u), seed)

\* the Firework detonates in its next update
WillDetonate(fw) == fw.rocket # None /\ Detonates(ParticleUpdate(fw.rocket[1]))

\* samples consumed by the detonations of the Fireworks before the i-th
UsedBefore(fws, i) ==
    4 * BurstSize * Cardinality({j \in 1..(i - 1) : WillDetonate(fws[j])})

\* for firework in state.fireworks.iter_mut() { firework.update(env) }
AdvanceAll(fws, kind) ==
    [i \in DOMAIN fws |-> FireworkUpdate(fws[i], Draws(kind, UsedBefore(fws, i)))]

\* bookkeeping shared by the phases: p runs now, in a run of at most limit
\* calls of update
Begin(p, limit) ==
    /\ pc = p
    /\ p = FirstPhase => tick < limit

End(p) ==
    /\ pc' = PhaseAfter(p)
    /\ tick' = IF p = FirstPhase THEN tick + 1 ELSE tick
    /\ ran' = IF p = FirstPhase THEN <<p>> ELSE Append(ran, p)
    /\ live' = IF p = FirstPhase THEN LiveCount(fireworks) ELSE live
    /\ frame' = None

idle == <<particle, firework, calls, frozen, fades>>

Init ==
    /\ fireworks = << >>
    /\ canvas \in Canvases
    /\ pc = FirstPhase
    /\ tick = 0
    /\ ran = << >>
    /\ hit = FALSE
    /\ live = 0
    /\ hist = << >>
    /\ reaped = 0
    /\ spawned = 0
    /\ removed = 0
    /\ frame = None
    /\ particle = None
    /\ firework = None
    /\ calls = 0
    /\ frozen = 0
    /\ fades = 0

\* mutant of QuitWithin: the key is looked at after the retain
QuitWithinLate(limit) ==
    /\ pc = PhaseOrder[2]
    /\ tick < limit
    /\ pc' = "exit"
    /\ UNCHANGED <<fireworks, canvas, tick, ran, hit, live, hist,
                   reaped, spawned, removed, frame, idle>>

\* if input.is_key_pressed(KeyboardKey::Q) { std::process::exit(0) }
QuitWithin(limit) ==
    /\ pc = FirstPhase
    /\ tick < limit
    /\ pc' = "exit"
    /\ UNCHANGED <<fireworks, canvas, tick, ran, hit, live, hist,
                   reaped, spawned, removed, frame, idle>>

\* state.fireworks.retain(|firework| !firework.is_dead())
ReapWithin(limit) ==
    /\ Begin("reap", limit)
    /\ fireworks' = Retain(fireworks)
    /\ hist' = RetainHist(fireworks, hist)
    /\ reaped' = Len(fireworks) - Len(fireworks')
    /\ removed' = removed + (Len(fireworks) - Len(fireworks'))
    /\ End("reap")
    /\ UNCHANGED <<canvas, hit, spawned, idle>>

\* the call of update that is running, or about to start, in the spawn phase
SpawnTick == IF FirstPhase = "spawn" THEN tick + 1 ELSE tick

\* the conditional push, with the trial's sample drawn from trials and the
\* launch speed's sample from launches
SpawnWith(limit, trials, launches) ==
    /\ Begin("spawn", limit)
    /\ \E u \in trials :
          /\ hit' = TrialHit(u)
          /\ IF TrialHit(u)
             THEN \E column \in ColumnSamples, v \in launches, seed \in SeedSamples :
                     IF canvas.width = 0
                     THEN \* remainder by zero panics
                          /\ pc' = "panic"
                          /\ UNCHANGED <<fireworks, hist, tick, ran, live, spawned, frame>>
                     ELSE /\ fireworks' = Push(fireworks, Spawned(column, v, seed))
                          /\ spawned' = spawned + 1
                          /\ hist' = Append(hist, [born |-> SpawnTick, updates |-> 0])
                          /\ End("spawn")
             ELSE /\ UNCHANGED <<fireworks, hist, spawned>>
                  /\ End("spawn")
    /\ UNCHANGED <<canvas, reaped, removed, idle>>

\* the update loop, with the detonations' samples drawn from a stream of kinds
AdvanceWith(limit, kinds) ==
    /\ Begin("advance", limit)
    /\ \E kind \in (IF \E i \in DOMAIN fireworks : WillDetonate(fireworks[i])
                    THEN kinds ELSE {"half"}) :
          fireworks' = AdvanceAll(fireworks, kind)
    /\ hist' = [i \in DOMAIN hist |-> [hist[i] EXCEPT !.updates = @ + 1]]
    /\ End("advance")
    /\ UNCHANGED <<canvas, hit, reaped, spawned, removed, idle>>

\* the samples of a trial that fails
MissSamples == {u \in TrialSamples : ~TrialHit(u)}

Quit == QuitWithin(MaxTicks)

Reap == ReapWithin(MaxTicks)

\* the tick whose trial is enumerated with both outcomes
MayHit(t) == t <= EarlyTicks \/ t >= LateTick

SpawnTrial ==
    SpawnWith(MaxTicks, IF MayHit(SpawnTick) THEN TrialSamples ELSE MissSamples,
              LaunchSamples)

Advance == AdvanceWith(MaxTicks, TickStreamKinds)

Next == Quit \/ Reap \/ SpawnTrial \/ Advance

Spec == Init /\ [][Next]_vars

(***************************************************************************)
(* Properties                                                              *)
(***************************************************************************)

NoDead(fws) == \A i \in DOMAIN fws : ~FireworkIsDead(fws[i])

AtTickEnd == pc = FirstPhase /\ tick > 0

\* C1: the phases of one call run in the order reap, spawn, advance, and
\* at the end of every call each Firework in the collection has received one
\* Firework::update in every call since its spawn, the spawning call included
C1_ReapSpawnAdvance ==
    /\ ran = SubSeq(<<"reap", "spawn", "advance">>, 1, Len(ran))
    /\ pc = "advance" /\ hit =>
          hist[Len(hist)] = [born |-> tick, updates |-> 0]
    /\ AtTickEnd =>
          \A i \in DOMAIN hist : hist[i].updates = tick - hist[i].born + 1

\* a Firework spawned in the call that just ended has received its first update
C1_Witness ==
    /\ AtTickEnd /\ hit
    /\ hist[Len(hist)] = [born |-> tick, updates |-> 1]
    /\ Len(hist) > 1

\* C2 as stated: at the end of every call of update no dead Firework is in
\* the collection
C2_NoDeadAfterTick == AtTickEnd => NoDead(fireworks)

\* C2 amended: every Firework that is dead at the end of a call of update was
\* not dead when the advance phase of that call began
C2_DeadOnlyFromThisAdvance ==
    [][pc = "advance" /\ pc' # "advance" =>
          /\ Len(fireworks') = Len(fireworks)
          /\ \A i \in DOMAIN fireworks :
                FireworkIsDead(fireworks'[i]) => ~FireworkIsDead(fireworks[i])]_vars

\* a call has ended with a dead Firework in the collection, next to a live one
C2_Witness ==
    /\ AtTickEnd
    /\ \E i \in DOMAIN fireworks : FireworkIsDead(fireworks[i])
    /\ \E i \in DOMAIN fireworks : ~FireworkIsDead(fireworks[i])

\* C3: when the spawn trial is evaluated the reap phase of that call is the
\* only phase that has run and no dead Firework is in the collection; none is
\* there either when the advance phase begins; the reap phase keeps exactly
\* the Fireworks that were not dead
C3_ReapBeforeSpawn ==
    /\ pc = "spawn" => ran = <<"reap">> /\ NoDead(fireworks)
    /\ pc = "advance" => NoDead(fireworks)
    /\ pc = "spawn" => Len(fireworks) = live /\ Len(hist) = live

\* the trial is about to be evaluated after a reap phase that removed a dead
\* Firework and kept a live one
C3_Witness == pc = "spawn" /\ reaped > 0 /\ fireworks # << >>

\* C7: after the spawn phase the collection holds the Fireworks that were not
\* dead when the call began, plus one exactly if the trial succeeded; while no
\* trial has succeeded the collection is empty; after N calls whose trials all
\* succeeded, with no Firework removed, it holds N Fireworks
C7_OneTrialPerTick ==
    /\ pc = "advance" => Len(fireworks) = live + (IF hit THEN 1 ELSE 0)
    /\ spawned = 0 => fireworks = << >>
    /\ AtTickEnd /\ spawned = tick /\ removed = 0 => Len(fireworks) = tick
    /\ Len(fireworks) = spawned - removed

\* a call removed a dead Firework and then pushed a new one
C7_Witness == pc = "advance" /\ hit /\ reaped > 0 /\ live > 0

\* C4: a Firework has no effect particle while its rocket is present; the
\* update in which the rocket's updated vertical speed exceeds -0.3 leaves it
\* with exactly 25, and every other update leaves the number unchanged
C4_EffectCount ==
    /\ [](firework # None /\ firework[1].rocket # None =>
            Len(firework[1].effect) = 0)
    /\ [][firework # None =>
            LET fw == firework[1]
                crossing ==
                    /\ fw.rocket # None
                    /\ F64Gt(F64Add(fw.rocket[1].speed[2], fw.rocket[1].acceleration[2]),
                             DetonationSpeed)
            IN  Len(firework'[1].effect) = IF crossing THEN 25 ELSE Len(fw.effect)]_vars

\* a Firework that detonated, faded out and was updated again holds 25 particles
C4_Witness ==
    /\ firework # None
    /\ firework[1].rocket = None
    /\ Len(firework[1].effect) = 25
    /\ frozen >= 2

\* C5: between updates a Firework has either its rocket and no effect
\* particle, or no rocket and some effect particles; a rocket that is None
\* stays None
C5_AtomicDetonation ==
    /\ [](firework # None =>
            \/ firework[1].rocket # None /\ firework[1].effect = << >>
            \/ firework[1].rocket = None /\ firework[1].effect # << >>)
    /\ [][firework # None /\ firework[1].rocket = None =>
            firework'[1].rocket = None]_vars

\* the state right after the detonating update: no rocket, a fresh burst
C5_Witness ==
    /\ firework # None
    /\ firework[1].rocket = None
    /\ \A i \in DOMAIN firework[1].effect :
          firework[1].effect[i].lifetime = F64Sub(F64One, DefaultFading)
    /\ calls > 0

\* C6: is_dead() holds exactly when the rocket is None and every effect
\* particle has lifetime <= 0, and once it holds it holds after every update
C6_DeadIsAbsorbing ==
    /\ [](firework # None =>
            (FireworkIsDead(firework[1]) <=>
                /\ firework[1].rocket = None
                /\ \A i \in DOMAIN firework[1].effect :
                      F64Le(firework[1].effect[i].lifetime, F64Zero)))
    /\ [][firework # None /\ FireworkIsDead(firework[1]) =>
            FireworkIsDead(firework'[1])]_vars

\* a dead Firework that has been updated again
C6_Witness ==
    /\ firework # None
    /\ FireworkIsDead(firework[1])
    /\ Len(firework[1].effect) = 25
    /\ frozen >= 1

\* C8: Particle::update changes no field of a particle whose lifetime is <= 0
C8_FrozenOnDeath ==
    [][particle # None /\ F64Le(particle[1].lifetime, F64Zero) =>
          particle' = particle]_vars

\* a particle that moved, died with lifetime exactly 0.0 and was updated again
C8_Witness ==
    /\ particle # None
    /\ particle[1].lifetime = F64Zero
    /\ particle[1].position # <<F64FromInt(3), F64FromInt(7)>>
    /\ frozen >= 2

\* C9: a particle with fading 0, and every rocket Firework::new builds, keeps
\* lifetime 1.0 and is never dead
C9_ImmortalRocket ==
    particle # None /\ (particle[1].fading = F64Zero \/ IsRocket(particle[1])) =>
        /\ particle[1].lifetime = F64One
        /\ ~ParticleIsDead(particle[1])
        /\ frozen = 0

\* a rocket with lifetime 1.0 after 100 updates
C9_Witness ==
    /\ particle # None
    /\ IsRocket(particle[1])
    /\ particle[1].lifetime = F64One
    /\ calls >= 100

\* C10 as stated: lifetime stays within [0, 1]
C10_LifetimeInUnitInterval ==
    particle # None =>
        /\ F64Le(F64Zero, particle[1].lifetime)
        /\ F64Le(particle[1].lifetime, F64One)

\* C10 amended: lifetime never exceeds 1 and never drops below -fading
C10_LifetimeAboveMinusFading ==
    particle # None =>
        /\ F64Le(F64Neg(particle[1].fading), particle[1].lifetime)
        /\ F64Le(particle[1].lifetime, F64One)

\* a particle built with the default fading that died with a negative lifetime
\* and was updated again
C10_Witness ==
    /\ particle # None
    /\ particle[1].fading = DefaultFading
    /\ F64Lt(particle[1].lifetime, F64Zero)
    /\ frozen >= 1

\* C11 as stated: for every canvas size, width 0 included, and every outcome
\* of the random draws, a call of update runs to completion without a panic
C11_NoPanic == pc # "panic"

(***************************************************************************)
(* SpecSpawn: the conditional push of update (lines 202-213) applied once  *)
(* to an empty State, over a wider set of canvases and samples             *)
(***************************************************************************)

SpawnCanvases ==
    {[width |-> w, height |-> h] : w \in {0, 1, 4, 80}, h \in {6, 48, 100}}

\* samples of gen::<u32>() for the launch column, up to 2^31 - 1
SpawnColumns == {0, 6, 83, 2147483647}

InitSpawn ==
    /\ canvas \in SpawnCanvases
    /\ firework = None
    /\ pc = "spawn"
    /\ fireworks = << >>
    /\ tick = 0
    /\ ran = << >>
    /\ hit = FALSE
    /\ live = 0
    /\ hist = << >>
    /\ reaped = 0
    /\ spawned = 0
    /\ removed = 0
    /\ frame = None
    /\ particle = None
    /\ calls = 0
    /\ frozen = 0
    /\ fades = 0

SpawnPolicy ==
    /\ pc = "spawn"
    /\ \E u \in TrialSamples :
          /\ hit' = TrialHit(u)
          /\ IF TrialHit(u)
             THEN \E column \in SpawnColumns, v \in USamples, seed \in SeedColors :
                     IF canvas.width = 0
                     THEN pc' = "panic" /\ UNCHANGED firework
                     ELSE pc' = "advance" /\ firework' = Some(Spawned(column, v, seed))
             ELSE pc' = "advance" /\ UNCHANGED firework
    /\ UNCHANGED <<particle, calls, frozen, fireworks, canvas, tick, ran, live,
                   hist, reaped, spawned, removed, frame, fades>>

NextSpawn == SpawnPolicy

SpecSpawn == InitSpawn /\ [][NextSpawn]_vars

\* -2.0
F64MinusTwo == <<-4096, 0, 0>>

\* C12 as stated: a spawned Firework has launch x in [0, width), launch y
\* equal to the height, and vertical speed strictly between -2.0 and -1.0
C12_SpeedInOpenInterval ==
    firework # None =>
        LET r == firework[1].rocket[1]
        IN  /\ \E x \in 0..(canvas.width - 1) : r.position[1] = F64FromInt(x)
            /\ r.position[2] = F64FromInt(canvas.height)
            /\ F64Lt(F64MinusTwo, r.speed[2])
            /\ F64Lt(r.speed[2], F64Neg(F64One))

\* C12 amended: the vertical speed is in the closed interval [-2.0, -1.0]
C12_SpeedInClosedInterval ==
    firework # None =>
        LET r == firework[1].rocket[1]
        IN  /\ \E x \in 0..(canvas.width - 1) : r.position[1] = F64FromInt(x)
            /\ r.position[2] = F64FromInt(canvas.height)
            /\ r.speed[1] = F64Zero
            /\ F64Le(F64MinusTwo, r.speed[2])
            /\ F64Le(r.speed[2], F64Neg(F64One))

\* a Firework spawned in the last column with the sample 1 - 2^-53, whose
\* speed rounds to -2.0
C12_Witness ==
    /\ firework # None
    /\ canvas.width = 4
    /\ firework[1].rocket[1].position[1] = F64FromInt(3)
    /\ firework[1].rocket[1].speed[2] = F64MinusTwo

(***************************************************************************)
(* SpecLife: the top-level update called tick after tick by the loop of    *)
(* pixel_loop::run, which never skips a statement of update: each phase    *)
(* is weakly fair.  The quit key is not: it may never be pressed.          *)
(* Fireworks are spawned in the ticks 1..LifeEarly, with every launch      *)
(* sample, and the run is long enough for the slowest of them.             *)
(***************************************************************************)

\* bound on the calls of the top-level update in one run of SpecLife
LifeTicks == 190

\* the trial is enumerated with both outcomes in the ticks 1..LifeEarly
LifeEarly == 2

QuitLife == QuitWithin(LifeTicks)

ReapLife == ReapWithin(LifeTicks)

SpawnLife ==
    SpawnWith(LifeTicks, IF SpawnTick <= LifeEarly THEN TrialSamples ELSE MissSamples,
              USamples)

AdvanceLife == AdvanceWith(LifeTicks, {"cycle"})

NextLife == QuitLife \/ ReapLife \/ SpawnLife \/ AdvanceLife

\* a step of the phase p, seen on pc alone.  The action of a phase is
\* enabled exactly when Begin holds for it, and the steps of NextLife that
\* change pc this way are the steps of that action: weak fairness of
\* PhaseStep(p) is weak fairness of ReapLife, SpawnLife and AdvanceLife.
PhaseStep(p) == Begin(p, LifeTicks) /\ pc' \in {PhaseAfter(p), "panic"}

SpecLife ==
    /\ Init
    /\ [][NextLife]_vars
    /\ \A p \in {"reap", "spawn", "advance"} : WF_pc(PhaseStep(p))

\* no further tick runs
Stopped == pc \in {"exit", "panic"}

\* the Firework spawned in tick b is in the collection
Present(b) == \E i \in DOMAIN hist : hist[i].born = b

Detonated(b) ==
    \E i \in DOMAIN hist : hist[i].born = b /\ fireworks[i].rocket = None

DeadIn(b) ==
    \E i \in DOMAIN hist : hist[i].born = b /\ FireworkIsDead(fireworks[i])

\* C13: as long as ticks keep being run, a Firework that entered the
\* collection eventually detonates, then eventually is dead, then eventually
\* is removed from the collection
C13_Lifecycle ==
    \A b \in 1..LifeEarly :
        /\ Present(b) ~> (Stopped \/ Detonated(b))
        /\ Detonated(b) ~> (Stopped \/ DeadIn(b))
        /\ DeadIn(b) ~> (Stopped \/ ~Present(b))

\* every tick of 1..LifeEarly has spawned a Firework, the last of them with
\* the slowest ascent, and all of them have been removed
C13_Witness ==
    /\ spawned = LifeEarly
    /\ removed = LifeEarly
    /\ fireworks = << >>
    /\ tick > LifeEarly + 184
    /\ ~Stopped


\* the f64 nearest to a + n, clamped to [0, 100]
Shifted(a, n) == F64Clamp(F64Add(a, F64FromInt(n)), F64Zero, F64Hundred)

\* C14 as stated: every effect particle has the base hue, a saturation within
\* 20 of the base saturation and a lightness within 40 of the base lightness,
\* both clamped to [0, 100]
C14_EffectColor ==
    firework # None =>
        \A i \in DOMAIN firework[1].effect :
            LET c == firework[1].effect[i].color.c
                b == firework[1].base_color
            IN  /\ c[1] = b[1]
                /\ F64Le(Shifted(b[2], -20), c[2]) /\ F64Le(c[2], Shifted(b[2], 20))
                /\ F64Le(Shifted(b[3], -40), c[3]) /\ F64Le(c[3], Shifted(b[3], 40))

(***************************************************************************)
(* SpecRender: the top-level update and render, both called by the loop    *)
(* of pixel_loop::run; render runs between two calls of update             *)
(***************************************************************************)

\* for firework in state.fireworks.iter() { firework.draw(canvas) }
RECURSIVE RenderCalls(_)
RenderCalls(fws) ==
    IF fws = << >> THEN << >>
    ELSE FireworkDraw(Head(fws)) \o RenderCalls(Tail(fws))

Render ==
    /\ pc = FirstPhase
    /\ frame = None
    /\ frame' = Some(RenderCalls(fireworks))
    /\ UNCHANGED <<fireworks, canvas, pc, tick, ran, hit, live, hist,
                   reaped, spawned, removed, idle>>

NextRender == Quit \/ Reap \/ SpawnTrial \/ Advance \/ Render

SpecRender == Init /\ [][NextRender]_vars

\* the particles of a Firework that are not dead
LiveParticles(fw) ==
    (IF fw.rocket # None /\ ~ParticleIsDead(fw.rocket[1]) THEN 1 ELSE 0)
    + Cardinality({i \in DOMAIN fw.effect : ~ParticleIsDead(fw.effect[i])})

RECURSIVE LiveParticlesOf(_)
LiveParticlesOf(fws) ==
    IF fws = << >> THEN 0
    ELSE LiveParticles(Head(fws)) + LiveParticlesOf(Tail(fws))

\* C15: a render pass issues one filled_rect per live particle and none
\* for a dead one; a Firework that is dead, also one still waiting in the
\* collection for the retain, contributes no call
C15_OneRectPerLiveParticle ==
    frame # None =>
        /\ Len(frame[1]) = LiveParticlesOf(fireworks)
        /\ \A k \in DOMAIN frame[1] : F64Gt(frame[1][k].scale, F64Zero)
        /\ \A i \in DOMAIN fireworks :
              /\ Len(FireworkDraw(fireworks[i])) = LiveParticles(fireworks[i])
              /\ FireworkIsDead(fireworks[i]) => FireworkDraw(fireworks[i]) = << >>

\* a frame rendered while a dead Firework waits in the collection next to
\* a Firework with live particles
C15_Witness ==
    /\ frame # None
    /\ frame[1] # << >>
    /\ \E i \in DOMAIN fireworks :
          FireworkIsDead(fireworks[i]) /\ fireworks[i].effect # << >>


\* C16: the quit key is looked at once, when a call of update starts and
\* before any of its statements: on quit the State is left as it is and no
\* statement of this or of a later call runs; otherwise the call goes on
\* with its first statement
C16_QuitBeforeAnyPhase ==
    [][/\ pc' = "exit" =>
             /\ pc = FirstPhase
             /\ UNCHANGED <<fireworks, canvas, tick, ran, hit, live, hist,
                            reaped, spawned, removed, frame, idle>>
       /\ pc = "exit" => UNCHANGED vars
       /\ (pc = FirstPhase /\ pc' # "exit") =>
             /\ pc' = PhaseAfter(FirstPhase)
             /\ tick' = tick + 1
             /\ ran' = <<FirstPhase>>]_vars

\* the key was pressed after some calls, with Fireworks in the collection
C16_Witness ==
    /\ pc = "exit"
    /\ tick > 0
    /\ fireworks # << >>


\* C17: an update of a live particle adds the acceleration to the speed,
\* subtracts fading from the lifetime and adds the new speed to the
\* position; acceleration, dimensions, fading and colour stay as they are
C17_SemiImplicitEuler ==
    [][(particle # None /\ ~ParticleIsDead(particle[1])) =>
          LET p == particle[1]
              q == particle'[1]
          IN  /\ q.speed[1] = F64Add(p.speed[1], p.acceleration[1])
              /\ q.speed[2] = F64Add(p.speed[2], p.acceleration[2])
              /\ q.lifetime = F64Sub(p.lifetime, p.fading)
              /\ q.position[1] = F64Add(p.position[1], q.speed[1])
              /\ q.position[2] = F64Add(p.position[2], q.speed[2])
              /\ q.acceleration = p.acceleration
              /\ q.dimensions = p.dimensions
              /\ q.fading = p.fading
              /\ q.color = p.color]_vars

\* a particle under gravity that is still live after several updates, its
\* speed being no longer the one it was built with
C17_Witness ==
    /\ particle # None
    /\ calls >= 3
    /\ ~ParticleIsDead(particle[1])
    /\ particle[1].acceleration[2] = Gravity
    /\ particle[1].speed[1] = F64HalfLit
    /\ particle[1].fading = DefaultFading


\* C18: every update of a Firework that has its rocket moves the rocket
\* strictly up (y decreases); a rocket still there after the update has a
\* vertical speed of at most -0.3; the rocket goes away in one update, the
\* one that pushes the burst, and does not come back
C18_RocketOnlyRises ==
    [][firework # None =>
          LET fw  == firework[1]
              fw2 == firework'[1]
          IN  /\ fw.rocket = None => fw2.rocket = None
              /\ fw.rocket # None =>
                    LET r == ParticleUpdate(fw.rocket[1])
                    IN  /\ F64Lt(r.position[2], fw.rocket[1].position[2])
                        /\ F64Lt(r.speed[2], F64Zero)
                        /\ fw2.rocket # None =>
                              /\ fw2.rocket[1] = r
                              /\ F64Le(r.speed[2], DetonationSpeed)
                              /\ fw2.effect = << >>
                        /\ fw2.rocket = None =>
                              /\ F64Gt(r.speed[2], DetonationSpeed)
                              /\ Len(fw2.effect) = BurstSize]_vars

\* the rocket launched at -2.0 just before its detonation
C18_Witness ==
    /\ firework # None
    /\ firework[1].rocket # None
    /\ calls >= 84


\* the updates after which an effect particle built by Particle::new is dead
FadeTicks == 100

\* the updates that changed an effect particle after fades calls
Faded == IF fades < FadeTicks THEN fades ELSE FadeTicks

\* C19 as stated: after the n-th update since the detonation, that one
\* included, the 25 effect particles share the lifetime 1 - 0.01 * n, and the
\* Firework is dead exactly from the 100th of these updates on
C19_LifetimeLinear ==
    (firework # None /\ firework[1].rocket = None) =>
        /\ Len(firework[1].effect) = BurstSize
        /\ \A i \in DOMAIN firework[1].effect :
              firework[1].effect[i].lifetime
                  = F64Sub(F64One, F64MulInt(DefaultFading, Faded))
        /\ FireworkIsDead(firework[1]) <=> fades >= FadeTicks

\* the 25 effect particles are there and share the lifetime life
SharedLifetime(fw, life) ==
    /\ Len(fw.effect) = BurstSize
    /\ \A i \in DOMAIN fw.effect : fw.effect[i].lifetime = life

\* C19 amended: the 25 effect particles share one lifetime, which every
\* update since the detonation, that one included, lowers by one rounded
\* subtraction of 0.01, starting from 1.0, until it is no longer positive:
\* that is after the 100th of these updates, when it is negative, and the
\* Firework is dead exactly from then on
C19_LifetimeShared ==
    /\ [](IF firework # None /\ firework[1].rocket = None
          THEN LET life == firework[1].effect[1].lifetime
               IN  /\ fades >= 1
                   /\ SharedLifetime(firework[1], life)
                   /\ F64Gt(life, F64Zero) <=> fades < FadeTicks
                   /\ F64Lt(life, F64Zero) <=> fades >= FadeTicks
                   /\ FireworkIsDead(firework[1]) <=> fades >= FadeTicks
          ELSE fades = 0)
    /\ [][(firework # None /\ firework'[1].rocket = None) =>
             SharedLifetime(firework'[1],
                 IF fades = 0 THEN F64Sub(F64One, DefaultFading)
                 ELSE IF fades < FadeTicks
                      THEN F64Sub(firework[1].effect[1].lifetime, DefaultFading)
                      ELSE firework[1].effect[1].lifetime)]_vars

\* the 100th update since the detonation has just been made
C19_Witness ==
    /\ firework # None
    /\ fades = FadeTicks
    /\ FireworkIsDead(firework[1])
    /\ frozen = 0

(***************************************************************************)
(* SpecChurn: the top-level update under continuous churn.  Before tick    *)
(* ChurnLate every trial succeeds and every rocket is launched with the    *)
(* sample 1 - 2^-53, at -2.0, the speed with the longest ascent; from      *)
(* ChurnLate on, when the collection is full, the trial may fail and the   *)
(* rocket may be launched at -1.0 as well.                                 *)
(***************************************************************************)

\* bound on the calls of the top-level update in one run of SpecChurn
ChurnTicks == 190

QuitChurn == QuitWithin(ChurnTicks)

ReapChurn == ReapWithin(ChurnTicks)

\* from this call on the trial and the launch sample are enumerated
ChurnLate == 188

SpawnChurn ==
    SpawnWith(ChurnTicks,
              IF SpawnTick >= ChurnLate THEN TrialSamples ELSE {F64Zero},
              IF SpawnTick >= ChurnLate
              THEN {Sample("zero", 1), Sample("top", 1)}
              ELSE {Sample("top", 1)})

AdvanceChurn == AdvanceWith(ChurnTicks, {"cycle"})

NextChurn == QuitChurn \/ ReapChurn \/ SpawnChurn \/ AdvanceChurn

SpecChurn == Init /\ [][NextChurn]_vars

\* the updates a rocket launched at -2.0 receives, the detonating one
\* included: the longest ascent of the launch speeds in [-2.0, -1.0]
MaxAscent == 85

\* the calls of update at whose end one Firework can be in the collection:
\* the detonating call is the last of the ascent and the first of the fading
MaxStay == MaxAscent + FadeTicks - 1

\* C20: the collection never holds more Fireworks than the calls of update
\* one Firework can stay for, since the Fireworks in it were pushed in
\* different calls and each has been updated at most that many times
C20_BoundedCollection ==
    /\ Len(fireworks) <= MaxStay
    /\ \A i \in DOMAIN fireworks :
          /\ hist[i].updates <= MaxStay
          /\ hist[i].updates
                = tick - hist[i].born + (IF pc \in {FirstPhase, "exit"} THEN 1 ELSE 0)
          /\ fireworks[i].rocket # None => hist[i].updates < MaxAscent
          /\ hist[i].updates < MaxStay => ~FireworkIsDead(fireworks[i])
    /\ \A i, j \in DOMAIN hist : i < j => hist[i].born < hist[j].born

\* the collection is full: a Firework was pushed in each of the last
\* MaxStay calls, and older ones have been removed
C20_Witness ==
    /\ Len(fireworks) = MaxStay
    /\ removed > 0

====
